---- MODULE Spec2Model ----
(***************************************************************************)
(* State-machine model of email_delivery_monitor.py: the Office 365 token  *)
(* cache, the send step with its single 401 retry, the Gmail poll loop     *)
(* with the header correlator, the Zabbix report and the scheduling loop.  *)
(* Times are whole seconds of the wall clock; latencies and Gmail's        *)
(* internalDate are kept in milliseconds so that fractions stay integers.  *)
(***************************************************************************)
EXTENDS Integers, Sequences, FiniteSets, TLC

(* ----------------------------- bounds --------------------------------- *)

\* Last second of the wall clock the model explores.
MaxTime == 10

\* Last second of the wall clock in a single test (--test): late enough for
\* its one cycle to run to its end.
MaxSingleTime == 13

\* Largest number of message ids one inbox listing returns (code: <= 10).
MaxPage == 1

(* ------------------------- program constants -------------------------- *)

\* A cached token is reused only while more than this many seconds remain.
TokenSkew == 300

\* expires_in used when the identity endpoint's answer carries none.
DefaultExpiresIn == 3600

\* Sleep between poll iterations and after a Gmail API error.
PollSleep == 5

\* Sleep of the scheduling loop between two run_pending() calls.
LoopSleepSeconds == 1

\* Delivery time reported for a failed cycle.
FailureSentinel == -1

\* Python's None for an epoch (last_send_epoch, next_run).
NoEpoch == -1

\* HTTP status of an accepted sendMail request.
Accepted == 202

\* HTTP status that triggers the token refresh and the retry.
Unauthorized == 401

\* Python's None for a token.
NoToken == "none"

\* Python's None for a test id or a header that is absent.
Absent == "absent"

(* --------------------------- input domains ---------------------------- *)

\* Bearer tokens the identity endpoint may hand out (it may repeat one).
Tokens == {"tokA", "tokB"}

\* uuid4()[:8] values run_test may draw.
TestIds == {"id1", "id2"}

\* uuid4().hex[:8] suffixes of a generated Message-ID.
Suffixes == {"r1"}

\* Seconds one network call may take.
Delays == {0, 1}

\* expires_in values of a successful exchange; NoEpoch: the field is missing.
ExpiresIns == {305, NoEpoch}

\* What acquire_token_for_client can produce: a token, an error dict, an exception.
ExchangeResults ==
    [kind : {"ok"}, token : Tokens, expires_in : ExpiresIns]
      \cup {[kind |-> "error", token |-> NoToken, expires_in |-> NoEpoch],
            [kind |-> "raise", token |-> NoToken, expires_in |-> NoEpoch]}

\* What requests.post can produce: a response with a status, or an exception.
Responses ==
    [raised : {FALSE}, status_code : {Accepted, Unauthorized, 500}]
      \cup {[raised |-> TRUE, status_code |-> 0]}

\* Configurations the monitor may be started with: a single test (--test)
\* with or without Gmail setup and Zabbix, continuous monitoring with Zabbix
\* enabled.  The poll timeout is 5 s, the test interval 2 s.
Configs ==
    [mode : {"test"}, skip_gmail : BOOLEAN, zabbix_enabled : BOOLEAN,
     timeout_seconds : {5}, test_interval_seconds : {2}]
    \cup
    [mode : {"monitor"}, skip_gmail : BOOLEAN, zabbix_enabled : {TRUE},
     timeout_seconds : {5}, test_interval_seconds : {2}]

(* ------------------------------ values -------------------------------- *)

Ms(seconds) == seconds * 1000

Max(a, b) == IF a >= b THEN a ELSE b

\* A delivery time: None, or a number of milliseconds.
NoneTime == [some |-> FALSE, ms |-> 0]

SomeTime(ms) == [some |-> TRUE, ms |-> ms]

NoMessageId == [tid |-> Absent, epoch |-> NoEpoch, rnd |-> Absent]

\* message_id = f"<{test_id}.{send_epoch}.{uuid4().hex[:8]}@{domain}>"
MessageId(tid, epoch, rnd) == [tid |-> tid, epoch |-> epoch, rnd |-> rnd]

\* The markers of the sendMail payload: X-EmailTestId, X-EmailSendEpoch and
\* the Message-ID (also sent as X-Monitor-Message-Id).
NoMessage == [tid |-> Absent, epoch |-> NoEpoch, mid |-> NoMessageId]

Message(tid, epoch, mid) == [tid |-> tid, epoch |-> epoch, mid |-> mid]

\* A retried request whose payload was built again at the time of the retry.
RetryMessageRebuilt(message, t) ==
    [message EXCEPT !.epoch = t,
                    !.mid = MessageId(message.tid, t, message.mid.rnd)]

\* The payload of the retried request: json=message, the object built
\* before the first request.
RetryMessage(message, t) == message

(* -------------------------- credential cache -------------------------- *)

\* A cache rule that serves a token with 300 s left also to a forced call.
CacheValidIgnoringForce(force, tok, exp, t) ==
    /\ tok # NoToken
    /\ t < exp - 300

\* A cache rule that still serves the token at expires_at - 300 exactly.
CacheValidAtSkew(force, tok, exp, t) ==
    /\ ~force
    /\ tok # NoToken
    /\ t <= exp - 300

\* not force and self.access_token and time.time() < (self.token_expires_at - 300)
CacheValid(force, tok, exp, t) ==
    /\ ~force
    /\ tok # NoToken
    /\ t < exp - TokenSkew

\* A response without expires_in gives a token that expires at once.
ExpiresInNoDefault(res) ==
    IF res.expires_in = NoEpoch THEN 0 ELSE res.expires_in

\* int(result.get('expires_in', 3600))
ExpiresIn(res) ==
    IF res.expires_in = NoEpoch THEN DefaultExpiresIn ELSE res.expires_in

\* A token call that forgets the cached token when the exchange fails.
GetTokenDropsCache(force, tok, exp, t, d, res) ==
    IF CacheValid(force, tok, exp, t)
    THEN [ret |-> tok, access_token |-> tok, token_expires_at |-> exp,
          exchanges |-> 0, elapsed |-> 0, expires_in |-> NoEpoch]
    ELSE IF res.kind = "ok"
    THEN [ret |-> res.token, access_token |-> res.token,
          token_expires_at |-> (t + d) + ExpiresIn(res),
          exchanges |-> 1, elapsed |-> d, expires_in |-> res.expires_in]
    ELSE [ret |-> NoToken, access_token |-> NoToken, token_expires_at |-> 0,
          exchanges |-> 1, elapsed |-> d, expires_in |-> NoEpoch]

\* _get_office365_token(force), called at time t; an exchange takes d seconds
\* and answers res.  Gives the returned token, the cache afterwards, the
\* number of exchanges performed, the time the call took and the expires_in
\* of a successful answer.
GetToken(force, tok, exp, t, d, res) ==
    IF CacheValid(force, tok, exp, t)
    THEN [ret |-> tok, access_token |-> tok, token_expires_at |-> exp,
          exchanges |-> 0, elapsed |-> 0, expires_in |-> NoEpoch]
    ELSE IF res.kind = "ok"
    THEN [ret |-> res.token, access_token |-> res.token,
          token_expires_at |-> (t + d) + ExpiresIn(res),
          exchanges |-> 1, elapsed |-> d, expires_in |-> res.expires_in]
    ELSE [ret |-> NoToken, access_token |-> tok, token_expires_at |-> exp,
          exchanges |-> 1, elapsed |-> d, expires_in |-> NoEpoch]

\* Observation of one _get_office365_token call: whether it was forced,
\* whether the cache then held a token with more than 300 s left, the token
\* returned, the number of exchanges performed and the expires_in answered.
NoCall == [called |-> FALSE, force |-> FALSE, fresh |-> FALSE,
           cached |-> NoToken, ret |-> NoToken, exchanges |-> 0,
           expires_in |-> NoEpoch]

(* ------------------------------ state --------------------------------- *)

VARIABLES
    now,              \* wall clock, seconds
    config,           \* the loaded configuration and command line
    pc,               \* where the single thread of control is
    kind,             \* "none" | "single" | "initial" | "scheduled" cycle
    stop_reason,      \* why the process ended: "none" | "done" | "setup" | "user" | "error" | "crash"
    gmail_service,    \* TRUE once the Gmail client is built
    msal_app,         \* TRUE once the MSAL application is built
    access_token,     \* cached bearer token
    token_expires_at, \* its expiry, epoch seconds
    last_send_epoch,  \* send epoch of the last accepted send
    last_message_id,  \* Message-ID of the last accepted send
    next_run,         \* next_run of the scheduled job
    test_id,          \* run_test's test id
    token,            \* send_test_email's bearer token
    send_epoch,       \* send_test_email's send epoch
    message_id,       \* send_test_email's Message-ID
    start_time,       \* check_for_email's start_time
    remaining,        \* messages of the current page not examined yet
    delivery_time,    \* run_test's delivery_time
    metrics,          \* measurements handed to the Zabbix sender in this cycle
    log_outcome,      \* final log line of the cycle
    obs               \* observations of the run kept for the properties

vars == <<now, config, pc, kind, stop_reason, gmail_service, msal_app,
          access_token, token_expires_at, last_send_epoch, last_message_id,
          next_run, test_id, token, send_epoch, message_id, start_time,
          remaining, delivery_time, metrics, log_outcome, obs>>

(* ------------------------------ Gmail --------------------------------- *)

\* Ways _setup_gmail_service can end under the configuration: SKIP_GMAIL_SETUP
\* makes it return at once, otherwise it builds the client or fails.
SetupOutcomes(cfg) == IF cfg.skip_gmail THEN {"skip"} ELSE {"ok", "fail"}

\* _setup_gmail_service: its return value and the gmail_service it leaves.
SetupGmail(outcome, service) ==
    CASE outcome = "skip" -> [ok |-> TRUE, service |-> FALSE]
      [] outcome = "ok"   -> [ok |-> TRUE, service |-> TRUE]
      [] OTHER            -> [ok |-> FALSE, service |-> service]

\* str.lower() on the header names and values that occur.
Lower(s) ==
    CASE s = "True"                 -> "true"
      [] s = "TRUE"                 -> "true"
      [] s = "X-EmailMonitor"       -> "x-emailmonitor"
      [] s = "X-EmailTestId"        -> "x-emailtestid"
      [] s = "X-EmailSendEpoch"     -> "x-emailsendepoch"
      [] s = "Message-ID"           -> "message-id"
      [] s = "X-Monitor-Message-Id" -> "x-monitor-message-id"
      [] s = "Subject"              -> "subject"
      [] OTHER                      -> s

\* A header name as the provider returns it: as sent, or already lowercased.
HeaderName(name, as_sent) == IF as_sent THEN name ELSE Lower(name)

\* No candidate.
NoCandidate ==
    [mon |-> Absent, tid |-> Absent, epoch |-> Absent, mid |-> NoMessageId,
     xmid |-> NoMessageId, subject |-> Absent, internalDate |-> 0,
     as_sent |-> TRUE]

\* Values of the X-EmailSendEpoch marker: the epoch sent, zero, text that
\* float() rejects, none.
EpochMarkers(se) == {ToString(se), "0", "n/a", Absent}

\* Message-ID values a candidate may carry: none, the one sent, a rewritten one.
CandidateMessageIds(mid) ==
    {NoMessageId, mid, MessageId(mid.tid, mid.epoch, "relay")}

\* Messages the metadata fetch may return while the cycle with test id tid,
\* send epoch se and Message-ID mid is polling.  All of them passed the
\* subject filter of the listing.  Every combination of the is-probe and
\* test-id markers occurs on a message that is otherwise the probe as sent;
\* the probe also occurs with its header names lowercased: relayed, with
\* each epoch marker, received after it was sent, or before when the marker
\* is the epoch sent or is missing; and with each pair of message identifiers.
Candidates(tid, se, mid) ==
    [mon : {Absent, "true", "True", "false"},
     tid : {Absent} \cup TestIds,
     epoch : {ToString(se)},
     mid : {mid},
     xmid : {mid},
     subject : {"prefix - " \o tid},
     internalDate : {Ms(se) + 2500},
     as_sent : {TRUE}]
    \cup
    [mon : {"true"},
     tid : TestIds,
     epoch : EpochMarkers(se),
     mid : {MessageId(mid.tid, mid.epoch, "relay")},
     xmid : {NoMessageId},
     subject : {"prefix - " \o tid},
     internalDate : {Ms(se) + 2500},
     as_sent : {FALSE}]
    \cup
    [mon : {"true"},
     tid : {tid},
     epoch : {ToString(se), Absent},
     mid : {MessageId(mid.tid, mid.epoch, "relay")},
     xmid : {NoMessageId},
     subject : {"prefix - " \o tid},
     internalDate : {Ms(se) - 1000},
     as_sent : {FALSE}]
    \cup
    [mon : {"true"},
     tid : {tid},
     epoch : {ToString(se)},
     mid : CandidateMessageIds(mid),
     xmid : {NoMessageId, mid},
     subject : {"prefix - " \o tid},
     internalDate : {Ms(se) + 2500},
     as_sent : {FALSE}]

\* msg['payload']['headers'] of a candidate: the markers it carries.
Headers(c) ==
    (IF c.mon = Absent THEN <<>>
     ELSE <<[name |-> HeaderName("X-EmailMonitor", c.as_sent), value |-> c.mon]>>)
    \o (IF c.tid = Absent THEN <<>>
        ELSE <<[name |-> HeaderName("X-EmailTestId", c.as_sent), value |-> c.tid]>>)
    \o (IF c.epoch = Absent THEN <<>>
        ELSE <<[name |-> HeaderName("X-EmailSendEpoch", c.as_sent), value |-> c.epoch]>>)
    \o (IF c.mid = NoMessageId THEN <<>>
        ELSE <<[name |-> HeaderName("Message-ID", c.as_sent), value |-> c.mid]>>)
    \o (IF c.xmid = NoMessageId THEN <<>>
        ELSE <<[name |-> HeaderName("X-Monitor-Message-Id", c.as_sent),
                value |-> c.xmid]>>)
    \o <<[name |-> HeaderName("Subject", c.as_sent), value |-> c.subject]>>

\* headers = {h['name'].lower(): h['value'] ...}; headers.get(name, default):
\* the last header of that lowercased name wins.
HeaderGet(hs, name, default) ==
    LET idx == {i \in 1..Len(hs) : Lower(hs[i].name) = name}
    IN  IF idx = {} THEN default
        ELSE hs[CHOOSE i \in idx : \A j \in idx : j <= i].value

\* A correlator that also wants a Message-ID on the candidate.
CorrelateWithMessageId(c, tid) ==
    /\ Lower(HeaderGet(Headers(c), "x-emailmonitor", "")) = "true"
    /\ HeaderGet(Headers(c), "x-emailtestid", Absent) = tid
    /\ HeaderGet(Headers(c), "message-id", NoMessageId) # NoMessageId

\* A correlator that trusts the is-probe marker alone.
CorrelateMarkerOnly(c, tid) ==
    Lower(HeaderGet(Headers(c), "x-emailmonitor", "")) = "true"

\* The two header tests of check_for_email: a candidate passes only with
\* X-EmailMonitor equal to "true" in any case and X-EmailTestId equal to test_id.
Correlate(c, tid) ==
    /\ Lower(HeaderGet(Headers(c), "x-emailmonitor", "")) = "true"
    /\ HeaderGet(Headers(c), "x-emailtestid", Absent) = tid

\* float(x_send): the decimal strings of the epochs that occur parse, others raise.
ParseFloat(s) ==
    IF \E n \in 0..MaxTime : ToString(n) = s
    THEN [ok |-> TRUE, ms |-> Ms(CHOOSE n \in 0..MaxTime : ToString(n) = s)]
    ELSE [ok |-> FALSE, ms |-> 0]

\* header_send_epoch of check_for_email, in ms; NoEpoch for None.
HeaderSendEpoch(c) ==
    LET x_send == HeaderGet(Headers(c), "x-emailsendepoch", "")
    IN  IF x_send = "" THEN NoEpoch
        ELSE IF ParseFloat(x_send).ok THEN ParseFloat(x_send).ms ELSE NoEpoch

\* base_send = header_send_epoch or self.last_send_epoch, in ms; NoEpoch when
\* both are None or zero.
BaseSend(c, last) ==
    IF HeaderSendEpoch(c) # NoEpoch /\ HeaderSendEpoch(c) # 0 THEN HeaderSendEpoch(c)
    ELSE IF last # NoEpoch /\ last # 0 THEN Ms(last)
    ELSE NoEpoch

\* A delivery time without the clamp at zero.
LatencyUnclamped(c, last, t, start) ==
    IF BaseSend(c, last) # NoEpoch
    THEN c.internalDate - BaseSend(c, last)
    ELSE Ms(t - start)

\* delivery_time of a candidate that passed the header tests, in ms.
Latency(c, last, t, start) ==
    IF BaseSend(c, last) # NoEpoch
    THEN Max(0, c.internalDate - BaseSend(c, last))
    ELSE Ms(t - start)

\* A loop condition that still holds at the deadline.
PollContinuesAtDeadline(t, start, max_wait_time) == t - start <= max_wait_time

\* while time.time() - start_time < max_wait_time
PollContinues(t, start, max_wait_time) == t - start < max_wait_time

\* What one Gmail request (list or get) can produce.
RequestOutcomes == {"ok", "http_error", "exception"}

(* ------------------------------ report -------------------------------- *)

\* A reporter that tests the delivery time for truth instead of None.
SendToZabbixTruthy(enabled, dt) ==
    IF ~enabled THEN <<>>
    ELSE IF dt.some /\ dt.ms # 0
    THEN <<[key |-> "email.delivery.time", value |-> dt.ms],
           [key |-> "email.delivery.success", value |-> 1]>>
    ELSE <<[key |-> "email.delivery.success", value |-> 0],
           [key |-> "email.delivery.time", value |-> Ms(FailureSentinel)]>>

\* send_to_zabbix: the metrics handed to the sender, none when Zabbix is disabled.
SendToZabbix(enabled, dt) ==
    IF ~enabled THEN <<>>
    ELSE IF dt.some
    THEN <<[key |-> "email.delivery.time", value |-> dt.ms],
           [key |-> "email.delivery.success", value |-> 1]>>
    ELSE <<[key |-> "email.delivery.success", value |-> 0],
           [key |-> "email.delivery.time", value |-> Ms(FailureSentinel)]>>

\* if delivery_time: ... else: ... at the end of run_test.
FinalLog(dt) == IF dt.some /\ dt.ms # 0 THEN "success" ELSE "failed"

(* ----------------------------- scheduler ------------------------------ *)

\* A fixed-rate job: each run is due a period after the previous due time.
ScheduleNextRunFixedRate(t, prev, interval) ==
    IF prev = NoEpoch THEN t + interval ELSE prev + interval

\* next_run of the job: a period after it was registered or last finished.
ScheduleNextRun(t, prev, interval) == t + interval

\* run_pending runs the job when its next_run has come.
JobDue(t, nxt) == t >= nxt

(* --------------------------- control flow ----------------------------- *)

\* A send step without its handler: the exception leaves run_test.
OnSendExceptionEscapes == "escape"

\* except Exception in send_test_email: log and return False.
OnSendException == "report_fail"

\* A poll that starts over at once when a request raises.
OnPollExceptionRetries == "poll_loop"

\* except Exception around check_for_email: log and return None.
OnPollException == "report"

\* After the unforced token: without one send_test_email returns False.
TokenNext(ret) == IF ret = NoToken THEN "report_fail" ELSE "send_post"

\* A first request that is retried after a server error as after a 401.
FirstNextRetriesServerError(resp) ==
    IF resp.raised THEN OnSendException
    ELSE IF resp.status_code = Accepted THEN "poll_begin"
    ELSE IF resp.status_code \in {Unauthorized, 500} THEN "send_refresh"
    ELSE "report_fail"

\* After the first sendMail request: 202 returns True, 401 refreshes the
\* token for the retry, anything else returns False.
FirstNext(resp) ==
    IF resp.raised THEN OnSendException
    ELSE IF resp.status_code = Accepted THEN "poll_begin"
    ELSE IF resp.status_code = Unauthorized THEN "send_refresh"
    ELSE "report_fail"

\* A failed forced refresh after which the cycle polls all the same.
RefreshNextPolls(ret) == IF ret = NoToken THEN "poll_begin" ELSE "send_retry"

\* After the forced refresh: without a token send_test_email returns False.
RefreshNext(ret) == IF ret = NoToken THEN "report_fail" ELSE "send_retry"

\* A retry that refreshes the token again on a second 401.
RetryNextAgain(resp) ==
    IF resp.raised THEN OnSendException
    ELSE IF resp.status_code = Accepted THEN "poll_begin"
    ELSE IF resp.status_code = Unauthorized THEN "send_refresh"
    ELSE "report_fail"

\* After the retried sendMail request: 202 returns True, anything else False.
RetryNext(resp) ==
    IF resp.raised THEN OnSendException
    ELSE IF resp.status_code = Accepted THEN "poll_begin"
    ELSE "report_fail"

\* The targets in which run_test reports: after a failed send, and after
\* check_for_email returned.
Reports == {"report_fail", "report"}

\* An exception that escapes run_test ("escape") ends the process: the
\* initial run_test is outside start_monitoring's try, and the try encloses
\* the whole loop.
NextStop(target, k, reason) ==
    IF target = "escape"
    THEN (IF k = "scheduled" THEN "error" ELSE "crash")
    ELSE reason

\* Observations of the send step, reset when check_for_email begins, and
\* those of one cycle, reset when run_test returns.
SendObs(o) ==
    [o EXCEPT !.sends = 0, !.forced = 0, !.status1 = 0, !.status2 = 0,
              !.refresh_ok = FALSE, !.tcall = NoCall,
              !.req1 = NoMessage, !.req2 = NoMessage]

CycleObs(o) ==
    [SendObs(o) EXCEPT !.send_ok = FALSE, !.matched = NoCandidate,
                       !.last_req = "none", !.poll_began = NoEpoch,
                       !.poll_result = "none", !.pushes = 0]

InitObs ==
    [sends |-> 0, forced |-> 0,
     status1 |-> 0, status2 |-> 0, refresh_ok |-> FALSE, send_ok |-> FALSE,
     tcall |-> NoCall, rejected |-> NoToken, matched |-> NoCandidate,
     last_req |-> "none", poll_began |-> NoEpoch, poll_result |-> "none",
     examined |-> NoCandidate, page |-> <<>>,
     req1 |-> NoMessage, req2 |-> NoMessage,
     pushes |-> 0, reported |-> FALSE, prev_end |-> NoEpoch,
     prev_kind |-> "none", prev_failed |-> FALSE, prev_long |-> FALSE,
     started |-> NoEpoch, registered |-> NoEpoch]

Init ==
    /\ now = 1
    /\ config \in Configs
    /\ pc = "main"
    /\ kind = "none"
    /\ stop_reason = "none"
    /\ gmail_service = FALSE
    /\ msal_app = FALSE
    /\ access_token = NoToken
    /\ token_expires_at = 0
    /\ last_send_epoch = NoEpoch
    /\ last_message_id = NoMessageId
    /\ next_run = NoEpoch
    /\ test_id = Absent
    /\ token = NoToken
    /\ send_epoch = NoEpoch
    /\ message_id = NoMessageId
    /\ start_time = NoEpoch
    /\ remaining = 0
    /\ delivery_time = NoneTime
    /\ metrics = <<>>
    /\ log_outcome = "none"
    /\ obs = InitObs

cache_vars == <<msal_app, access_token, token_expires_at>>
sent_vars == <<last_send_epoch, last_message_id>>
send_locals == <<token, send_epoch, message_id>>
poll_locals == <<start_time, remaining>>
report_vars == <<delivery_time, metrics, log_outcome>>
proc_vars == <<config, kind, next_run>>

\* Last second of the clock that a step of the current cycle may reach.
Horizon == IF kind = "single" THEN MaxSingleTime ELSE MaxTime

\* run_test around its two calls.  A step of the cycle ends in target: in
\* "report_fail" (send_test_email returned False) run_test calls
\* send_to_zabbix(None) and returns; in "report" (check_for_email returned
\* dt) it calls send_to_zabbix(dt) and writes the final log line; "escape"
\* is an exception leaving run_test; any other target is the next step.
\* o is the observation record after the step.
Leave(target, dt, o) ==
    /\ pc' = CASE target \in Reports -> "reported"
               [] target = "escape" -> "exit"
               [] OTHER -> target
    /\ stop_reason' = NextStop(target, kind, stop_reason)
    /\ delivery_time' = IF target = "report" THEN dt ELSE NoneTime
    /\ metrics' = IF target \in Reports
                  THEN SendToZabbix(config.zabbix_enabled, delivery_time')
                  ELSE metrics
    /\ log_outcome' = CASE target = "report_fail" -> "send_failed"
                        [] target = "report" -> FinalLog(dt)
                        [] OTHER -> log_outcome
    /\ obs' = IF target \in Reports
              THEN [o EXCEPT !.reported = TRUE, !.pushes = @ + 1]
              ELSE o

\* main with --test: one run_test, no scheduling.
MainTest ==
    /\ pc = "main"
    /\ config.mode = "test"
    /\ pc' = "run_test"
    /\ kind' = "single"
    /\ UNCHANGED <<now, config, stop_reason, gmail_service, cache_vars, sent_vars,
                   next_run, test_id, send_locals, poll_locals, report_vars, obs>>

\* start_monitoring up to the initial run_test: Gmail setup (a failure ends
\* the process), then the job is registered a period ahead.
StartMonitoring ==
    /\ pc = "main"
    /\ config.mode = "monitor"
    /\ \E outcome \in SetupOutcomes(config) :
         LET r == SetupGmail(outcome, gmail_service)
         IN  /\ gmail_service' = r.service
             /\ IF r.ok
                THEN /\ pc' = "run_test"
                     /\ kind' = "initial"
                     /\ stop_reason' = stop_reason
                     /\ next_run' = ScheduleNextRun(now, next_run, config.test_interval_seconds)
                     /\ obs' = [obs EXCEPT !.registered = now]
                ELSE /\ pc' = "exit"
                     /\ kind' = kind
                     /\ stop_reason' = "setup"
                     /\ next_run' = next_run
                     /\ obs' = obs
    /\ UNCHANGED <<now, config, cache_vars, sent_vars, test_id, send_locals,
                   poll_locals, report_vars>>

\* run_test up to the call of send_test_email: a fresh test id.
RunTest ==
    /\ pc = "run_test"
    /\ \E tid \in TestIds : test_id' = tid
    /\ pc' = "send_token"
    /\ obs' = [obs EXCEPT !.reported = FALSE, !.started = now]
    /\ UNCHANGED <<now, proc_vars, stop_reason, gmail_service, cache_vars,
                   sent_vars, send_locals, poll_locals, report_vars>>

\* The observation of a _get_office365_token call.
Call(force, g) ==
    LET fresh == access_token # NoToken /\ token_expires_at - now > TokenSkew
    IN  [called |-> TRUE, force |-> force, fresh |-> fresh,
         cached |-> IF fresh THEN access_token ELSE NoToken,
         ret |-> g.ret, exchanges |-> g.exchanges, expires_in |-> g.expires_in]

\* A successful exchange puts a fetched token in the cache: the one that was
\* answered with 401 is no longer the cached one.
Rejected(g, old) == IF g.exchanges = 1 /\ g.ret # NoToken THEN NoToken ELSE old

\* send_test_email up to the first request: the unforced token, then the
\* send epoch, the Message-ID and the message.
SendToken ==
    /\ pc = "send_token"
    /\ \E res \in ExchangeResults, d \in Delays, rnd \in Suffixes :
         LET g == GetToken(FALSE, access_token, token_expires_at, now, d, res)
             target == TokenNext(g.ret)
             goes == target = "send_post"
         IN  /\ now' = now + g.elapsed
             /\ now' <= Horizon
             /\ msal_app' = (msal_app \/ g.exchanges = 1)
             /\ access_token' = g.access_token
             /\ token_expires_at' = g.token_expires_at
             /\ token' = g.ret
             /\ send_epoch' = IF goes THEN now' ELSE NoEpoch
             /\ message_id' = IF goes THEN MessageId(test_id, now', rnd)
                              ELSE NoMessageId
             /\ Leave(target, NoneTime,
                      [obs EXCEPT !.tcall = Call(FALSE, g),
                                  !.rejected = Rejected(g, @)])
    /\ UNCHANGED <<proc_vars, gmail_service, sent_vars, test_id, poll_locals>>

\* A send step that records its epoch and Message-ID whatever the answer.
RecordedOnAnyAnswer(ok, new, old) == new

\* self.last_send_epoch and self.last_message_id after an answer: assigned
\* in the 202 branches only.
Recorded(ok, new, old) == IF ok THEN new ELSE old

\* The observation of a sendMail answer: a 401 rejects the token it carried.
Answer(o, resp, ok) ==
    [o EXCEPT !.sends = @ + 1,
              !.tcall = NoCall,
              !.send_ok = ok,
              !.rejected = IF ~resp.raised /\ resp.status_code = Unauthorized
                           THEN token ELSE @]

\* The first sendMail request and what follows from its answer: a 202
\* records the send epoch and the Message-ID.
SendPost ==
    /\ pc = "send_post"
    /\ \E resp \in Responses, d \in Delays :
         LET target == FirstNext(resp)
             ok == target = "poll_begin"
             goes == target = "send_refresh"
         IN  /\ now' = now + d
             /\ now' <= Horizon
             /\ last_send_epoch' = Recorded(ok, send_epoch, last_send_epoch)
             /\ last_message_id' = Recorded(ok, message_id, last_message_id)
             /\ token' = IF goes THEN token ELSE NoToken
             /\ send_epoch' = IF goes THEN send_epoch ELSE NoEpoch
             /\ message_id' = IF goes THEN message_id ELSE NoMessageId
             /\ Leave(target, NoneTime,
                      [Answer(obs, resp, ok) EXCEPT
                          !.status1 = resp.status_code,
                          !.req1 = Message(test_id, send_epoch, message_id)])
    /\ UNCHANGED <<proc_vars, gmail_service, cache_vars, test_id, poll_locals>>

\* The forced token refresh after a 401.
SendRefresh ==
    /\ pc = "send_refresh"
    /\ \E res \in ExchangeResults, d \in Delays :
         LET g == GetToken(TRUE, access_token, token_expires_at, now, d, res)
             target == RefreshNext(g.ret)
             goes == target = "send_retry"
         IN  /\ now' = now + g.elapsed
             /\ now' <= Horizon
             /\ msal_app' = (msal_app \/ g.exchanges = 1)
             /\ access_token' = g.access_token
             /\ token_expires_at' = g.token_expires_at
             /\ token' = g.ret
             /\ send_epoch' = IF goes THEN send_epoch ELSE NoEpoch
             /\ message_id' = IF goes THEN message_id ELSE NoMessageId
             /\ Leave(target, NoneTime,
                      [obs EXCEPT !.tcall = Call(TRUE, g),
                                  !.forced = @ + 1,
                                  !.refresh_ok = g.ret # NoToken,
                                  !.rejected = Rejected(g, @)])
    /\ UNCHANGED <<proc_vars, gmail_service, sent_vars, test_id, poll_locals>>

\* The retried sendMail request, with the same message and the new token.
SendRetry ==
    /\ pc = "send_retry"
    /\ \E resp \in Responses, d \in Delays :
         LET target == RetryNext(resp)
             ok == target = "poll_begin"
         IN  /\ now' = now + d
             /\ now' <= Horizon
             /\ last_send_epoch' = Recorded(ok, send_epoch, last_send_epoch)
             /\ last_message_id' = Recorded(ok, message_id, last_message_id)
             /\ token' = NoToken
             /\ send_epoch' = NoEpoch
             /\ message_id' = NoMessageId
             /\ Leave(target, NoneTime,
                      [Answer(obs, resp, ok) EXCEPT
                          !.status2 = resp.status_code,
                          !.req2 = RetryMessage(
                                     Message(test_id, send_epoch, message_id), now)])
    /\ UNCHANGED <<proc_vars, gmail_service, cache_vars, test_id, poll_locals>>

\* check_for_email up to its loop: without a Gmail client it tries the setup
\* once and returns None when that fails or was skipped; then start_time.
PollBegin ==
    /\ pc = "poll_begin"
    /\ \E outcome \in SetupOutcomes(config) :
         LET r == IF gmail_service THEN [ok |-> TRUE, service |-> TRUE]
                  ELSE SetupGmail(outcome, gmail_service)
             ready == r.ok /\ r.service
         IN  /\ gmail_service' = r.service
             /\ start_time' = IF ready THEN now ELSE start_time
             /\ Leave(IF ready THEN "poll_loop" ELSE "report", NoneTime,
                      [SendObs(obs) EXCEPT
                          !.poll_began = now,
                          !.poll_result = IF ready THEN "none" ELSE "no_service"])
    /\ UNCHANGED <<now, proc_vars, cache_vars, sent_vars, test_id, send_locals,
                   remaining>>

\* One test of the loop condition and, when it holds, the inbox listing: an
\* HttpError sleeps and continues, any other exception leaves the function,
\* an empty page sleeps, a page of n ids goes on to the fetches.  When the
\* condition fails the function returns None.
PollIterate ==
    /\ pc = "poll_loop"
    /\ IF ~PollContinues(now, start_time, config.timeout_seconds)
       THEN /\ Leave("report", NoneTime, [obs EXCEPT !.poll_result = "timeout"])
            /\ UNCHANGED <<now, remaining>>
       ELSE \E outcome \in RequestOutcomes, n \in 0..MaxPage, d \in Delays :
              LET sleeps == outcome = "http_error" \/ (outcome = "ok" /\ n = 0)
                  target == CASE outcome = "exception" -> OnPollException
                              [] sleeps -> "poll_loop"
                              [] OTHER -> "poll_get"
              IN  /\ now' = now + d + (IF sleeps THEN PollSleep ELSE 0)
                  /\ now' <= Horizon
                  /\ remaining' = IF target = "poll_get" THEN n ELSE 0
                  /\ Leave(target, NoneTime,
                           [obs EXCEPT !.last_req = outcome,
                                       !.poll_result = IF outcome = "exception"
                                                       THEN "exception" ELSE @])
    /\ UNCHANGED <<proc_vars, gmail_service, cache_vars, sent_vars, test_id,
                   send_locals, start_time>>

\* A fetch that went on after a positive match.
ExamineNextKeepsFetching(outcome, hit, rem) ==
    CASE outcome = "exception" -> OnPollException
      [] outcome = "http_error" -> "poll_loop"
      [] rem = 1 -> IF hit THEN "report" ELSE "poll_loop"
      [] OTHER -> "poll_get"

\* Where the inner loop goes after one fetch with rem ids left, this one
\* included: any exception but HttpError leaves the function, HttpError
\* sleeps and continues the outer loop, a positive match returns, the last
\* id of the page falls through to the sleep, otherwise the next id.
ExamineNext(outcome, hit, rem) ==
    CASE outcome = "exception" -> OnPollException
      [] outcome = "http_error" -> "poll_loop"
      [] hit -> "report"
      [] rem = 1 -> "poll_loop"
      [] OTHER -> "poll_get"

\* The metadata fetch of the next listed message, which returns c, and the
\* header tests: a candidate that passes ends the poll with its delivery
\* time; after the last one the loop sleeps.
Examine(c) ==
    /\ pc = "poll_get"
    /\ remaining > 0
    /\ \E outcome \in RequestOutcomes, d \in Delays :
         LET hit == outcome = "ok" /\ Correlate(c, test_id)
             target == ExamineNext(outcome, hit, remaining)
             sleeps == outcome # "exception" /\ target = "poll_loop"
         IN  /\ now' = now + d + (IF sleeps THEN PollSleep ELSE 0)
             /\ now' <= Horizon
             /\ remaining' = IF target = "poll_get" THEN remaining - 1 ELSE 0
             /\ Leave(target,
                      IF hit THEN SomeTime(Latency(c, last_send_epoch, now', start_time))
                      ELSE NoneTime,
                      [obs EXCEPT !.last_req = outcome,
                                  !.matched = IF hit THEN c ELSE @,
                                  !.poll_result = CASE hit -> "matched"
                                                    [] outcome = "exception" -> "exception"
                                                    [] OTHER -> @])
    /\ UNCHANGED <<proc_vars, gmail_service, cache_vars, sent_vars, test_id,
                   send_locals, start_time>>

\* The fetch of the next listed message, whatever the inbox holds.
PollGet ==
    /\ pc = "poll_get"
    /\ \E c \in Candidates(test_id, last_send_epoch, last_message_id) : Examine(c)

\* run_test returns: its locals are gone.  main ends after a single test;
\* the initial test is followed by the scheduling loop; after a test that
\* run_pending ran, the job gets its next run and the loop sleeps a second.
Return ==
    /\ pc = "reported"
    /\ pc' = IF kind = "single" THEN "exit" ELSE "loop"
    /\ stop_reason' = IF kind = "single" THEN "done" ELSE stop_reason
    /\ next_run' = IF kind = "scheduled"
                   THEN ScheduleNextRun(now, next_run, config.test_interval_seconds)
                   ELSE next_run
    /\ now' = IF kind = "scheduled" THEN now + LoopSleepSeconds ELSE now
    /\ now' <= Horizon
    /\ test_id' = Absent
    /\ token' = NoToken
    /\ send_epoch' = NoEpoch
    /\ message_id' = NoMessageId
    /\ start_time' = NoEpoch
    /\ remaining' = 0
    /\ delivery_time' = NoneTime
    /\ metrics' = <<>>
    /\ log_outcome' = "none"
    /\ obs' = [CycleObs(obs) EXCEPT
                  !.prev_end = IF kind = "scheduled" THEN now ELSE @,
                  !.prev_kind = kind,
                  !.prev_failed = ~delivery_time.some,
                  !.prev_long = now - obs.started >= 2 * config.test_interval_seconds,
                  !.started = NoEpoch]
    /\ UNCHANGED <<config, kind, gmail_service, cache_vars, sent_vars>>

\* One turn of the scheduling loop: run_pending() starts the job when it is
\* due, otherwise the loop sleeps a second.
LoopRunPending ==
    /\ pc = "loop"
    /\ IF JobDue(now, next_run)
       THEN /\ pc' = "run_test"
            /\ kind' = "scheduled"
            /\ now' = now
       ELSE /\ pc' = "loop"
            /\ kind' = kind
            /\ now' = now + LoopSleepSeconds
            /\ now' <= MaxTime
    /\ UNCHANGED <<config, stop_reason, next_run, gmail_service, cache_vars,
                   sent_vars, test_id, send_locals, poll_locals, report_vars, obs>>

\* KeyboardInterrupt in the loop: monitoring stopped by the user, the
\* process and its memory are gone.
Interrupt ==
    /\ pc = "loop"
    /\ pc' = "exit"
    /\ stop_reason' = "user"
    /\ gmail_service' = FALSE
    /\ msal_app' = FALSE
    /\ access_token' = NoToken
    /\ token_expires_at' = 0
    /\ last_send_epoch' = NoEpoch
    /\ last_message_id' = NoMessageId
    /\ next_run' = NoEpoch
    /\ obs' = InitObs
    /\ UNCHANGED <<now, config, kind, test_id, send_locals, poll_locals,
                   report_vars>>

Next ==
    \/ MainTest
    \/ StartMonitoring
    \/ RunTest
    \/ SendToken
    \/ SendPost
    \/ SendRefresh
    \/ SendRetry
    \/ PollBegin
    \/ PollIterate
    \/ PollGet
    \/ Return
    \/ LoopRunPending
    \/ Interrupt

Spec == Init /\ [][Next]_vars

(* --------------------------- a single test --------------------------- *)

\* main with --test: one run_test and the process ends.
TestInit == Init /\ config.mode = "test"

TestNext ==
    \/ MainTest
    \/ RunTest
    \/ SendToken
    \/ SendPost
    \/ SendRefresh
    \/ SendRetry
    \/ PollBegin
    \/ PollIterate
    \/ PollGet
    \/ Return

\* Weak fairness of PollGet, written out with pc = "poll_get" for its
\* enabling condition: a fetch that stays pending is made.
PollGetFair == []<>(pc # "poll_get") \/ []<><<pc = "poll_get" /\ pc' # pc>>_vars

\* The program is one thread that takes its next step as long as it has one:
\* the clock advances and every network call returns.
TestSpec ==
    /\ TestInit
    /\ [][TestNext]_vars
    /\ WF_vars(MainTest)
    /\ WF_vars(RunTest)
    /\ WF_vars(SendToken)
    /\ WF_vars(SendPost)
    /\ WF_vars(SendRefresh)
    /\ WF_vars(SendRetry)
    /\ WF_vars(PollBegin)
    /\ WF_vars(PollIterate)
    /\ WF_vars(Return)
    /\ PollGetFair

(* ------------------------ the correlator alone ------------------------ *)

\* Send epochs of the probe whose poll is examined.
SendEpochs == {1, 2}

\* check_for_email about to fetch one listed message, obs.examined, after a
\* send that was accepted at one of the send epochs.
MatchInit ==
    /\ config \in Configs
    /\ pc = "poll_get"
    /\ kind = IF config.mode = "test" THEN "single" ELSE "initial"
    /\ stop_reason = "none"
    /\ gmail_service = TRUE
    /\ msal_app = TRUE
    /\ access_token \in Tokens
    /\ token_expires_at = 1 + DefaultExpiresIn
    /\ last_send_epoch \in SendEpochs
    /\ test_id \in TestIds
    /\ \E rnd \in Suffixes : last_message_id = MessageId(test_id, last_send_epoch, rnd)
    /\ next_run = IF config.mode = "test" THEN NoEpoch
                  ELSE ScheduleNextRun(1, NoEpoch, config.test_interval_seconds)
    /\ token = NoToken
    /\ send_epoch = NoEpoch
    /\ message_id = NoMessageId
    /\ \E d \in Delays : now = last_send_epoch + d
    /\ start_time = now
    /\ remaining = 1
    /\ delivery_time = NoneTime
    /\ metrics = <<>>
    /\ log_outcome = "none"
    /\ obs \in {[InitObs EXCEPT !.examined = c, !.send_ok = TRUE,
                                 !.poll_began = start_time, !.last_req = "ok",
                                 !.started = 1,
                                 !.registered = IF config.mode = "test"
                                                THEN NoEpoch ELSE 1] :
                  c \in Candidates(test_id, last_send_epoch, last_message_id)}

\* The fetch returns the message drawn.
ExamineDrawn == Examine(obs.examined)

MatchNext == ExamineDrawn

MatchSpec == MatchInit /\ [][MatchNext]_vars

(* --------------------------- one listed page --------------------------- *)

\* Most ids of one listing that are fetched.
MaxListed == 2

\* check_for_email about to fetch the ids of one listing, whose messages are
\* obs.page in the order listed.
PageInit ==
    /\ config \in Configs
    /\ pc = "poll_get"
    /\ kind = IF config.mode = "test" THEN "single" ELSE "initial"
    /\ stop_reason = "none"
    /\ gmail_service = TRUE
    /\ msal_app = TRUE
    /\ access_token = "tokA"
    /\ token_expires_at = 1 + DefaultExpiresIn
    /\ last_send_epoch \in SendEpochs
    /\ test_id \in TestIds
    /\ \E rnd \in Suffixes : last_message_id = MessageId(test_id, last_send_epoch, rnd)
    /\ next_run = IF config.mode = "test" THEN NoEpoch
                  ELSE ScheduleNextRun(1, NoEpoch, config.test_interval_seconds)
    /\ token = NoToken
    /\ send_epoch = NoEpoch
    /\ message_id = NoMessageId
    /\ now = last_send_epoch
    /\ start_time = now
    /\ remaining \in 1..MaxListed
    /\ delivery_time = NoneTime
    /\ metrics = <<>>
    /\ log_outcome = "none"
    /\ obs \in {[InitObs EXCEPT !.page = p, !.send_ok = TRUE,
                                 !.poll_began = start_time, !.last_req = "ok",
                                 !.started = 1,
                                 !.registered = IF config.mode = "test"
                                                THEN NoEpoch ELSE 1] :
                  p \in [1..remaining ->
                           Candidates(test_id, last_send_epoch, last_message_id)]}

\* The fetch of the next id of the page returns its message.
PageGet ==
    /\ pc = "poll_get"
    /\ remaining > 0
    /\ Examine(obs.page[Len(obs.page) - remaining + 1])

PageNext == PageGet

PageSpec == PageInit /\ [][PageNext]_vars

(* ----------------------------- properties ----------------------------- *)

\* C1: in every cycle the send step issues at most two send requests and at
\* most one forced refresh; the second request is issued only after a first
\* answer of 401 and a forced refresh that returned a token; a 202, on the
\* first or on the retried request, takes the cycle to the poll with the
\* send epoch and the Message-ID of this cycle recorded.
SendBudget ==
    /\ obs.sends <= 2
    /\ obs.forced <= 1
    /\ (pc = "send_retry" \/ obs.sends = 2) =>
          /\ obs.status1 = Unauthorized
          /\ obs.forced = 1
          /\ obs.refresh_ok
    /\ (obs.status1 = Accepted \/ obs.status2 = Accepted) =>
          /\ pc = "poll_begin"
          /\ obs.send_ok
          /\ last_message_id.tid = test_id
          /\ last_send_epoch = last_message_id.epoch
    /\ pc = "poll_begin" => (obs.status1 = Accepted \/ obs.status2 = Accepted)

\* The retried request was answered with 202 and the cycle is about to poll.
RetriedSendAccepted ==
    /\ pc = "poll_begin"
    /\ obs.sends = 2
    /\ obs.forced = 1
    /\ obs.status2 = Accepted

\* C2: an unforced token call returns the cached token without an exchange
\* when a token is cached and now < expires_at - 300, and performs exactly
\* one exchange otherwise; a returned token has at least 300 s left or was
\* fetched by that call.
UnforcedTokenRule ==
    (obs.tcall.called /\ ~obs.tcall.force) =>
        /\ obs.tcall.fresh =>
              /\ obs.tcall.exchanges = 0
              /\ obs.tcall.ret = obs.tcall.cached
              /\ obs.tcall.ret # NoToken
        /\ ~obs.tcall.fresh => obs.tcall.exchanges = 1
        /\ obs.tcall.ret # NoToken =>
              \/ token_expires_at - now >= TokenSkew
              \/ obs.tcall.exchanges = 1

\* An unforced call served from the cache.
TokenServedFromCache ==
    /\ obs.tcall.called
    /\ ~obs.tcall.force
    /\ obs.tcall.fresh
    /\ obs.tcall.exchanges = 0
    /\ obs.tcall.ret = access_token

\* C3: a token that was answered with 401 is never again returned from the
\* cache, also when the forced refresh failed.
RejectedTokenNeverServed ==
    (obs.tcall.called /\ obs.tcall.exchanges = 0 /\ obs.tcall.ret # NoToken) =>
        obs.tcall.ret # obs.rejected

\* C4: a candidate passes the correlator only with the is-probe marker true
\* and the test id of the cycle being polled, whatever its subject; a cycle
\* is delivered only on such a candidate.
MatchNeedsMarkers ==
    /\ obs.matched # NoCandidate =>
          /\ obs.matched.mon \in {"true", "True"}
          /\ obs.matched.tid = test_id
    /\ delivery_time.some =>
          /\ obs.matched # NoCandidate
          /\ obs.matched.tid = test_id

\* A cycle delivered on a candidate that carries its test id.
DeliveredOnOwnTestId ==
    /\ pc = "reported"
    /\ delivery_time.some
    /\ obs.matched.tid = test_id
    /\ obs.matched.mon = "True"

\* The deadline of the poll in progress.
PollDeadline == obs.poll_began + config.timeout_seconds

\* C5: the poll deadline is poll start plus the timeout and does not move
\* while the poll runs; no listing is issued once now >= deadline, the poll
\* then returns its timeout.
DeadlineFixed ==
    [][/\ pc = "poll_loop" =>
             IF now >= PollDeadline
             THEN /\ pc' = "reported"
                  /\ obs'.poll_result = "timeout"
                  /\ ~delivery_time'.some
                  /\ now' = now
             ELSE obs'.poll_result # "timeout"
       /\ (pc \in {"poll_loop", "poll_get"} /\ pc' \in {"poll_loop", "poll_get"}) =>
             /\ start_time = obs.poll_began
             /\ start_time' = start_time
             /\ obs'.poll_began = obs.poll_began
      ]_vars

\* A poll that timed out at its deadline after a failed request and a backoff.
TimedOutAfterBackoff ==
    /\ pc = "reported"
    /\ obs.poll_result = "timeout"
    /\ obs.last_req = "http_error"
    /\ now >= PollDeadline

\* C6: a failed request in a poll iteration is never terminal: a poll that
\* began ends only with a match or with the timeout at the deadline.
PollEndsMatchedOrTimedOut ==
    (pc = "reported" /\ start_time # NoEpoch) =>
        \/ obs.poll_result = "matched"
        \/ obs.poll_result = "timeout" /\ now >= PollDeadline

\* C7: after a successful send, a cycle without a delivery reports its
\* failure only when the timeout has passed since polling began.
FailureOnlyAfterDeadline ==
    (pc = "reported" /\ obs.send_ok /\ start_time # NoEpoch /\ ~delivery_time.some) =>
        now >= PollDeadline

\* The value sets of the measurements with a key among those handed over.
Metric(key) ==
    {metrics[i].value : i \in {j \in 1..Len(metrics) : metrics[j].key = key}}

\* The cycle failed: its send did, or its poll ended without a match.
CycleFailed ==
    \/ ~obs.send_ok
    \/ obs.poll_result \in {"timeout", "exception", "no_service"}

\* C8: no failure in a cycle ends the scheduling loop: the process stops
\* only after a single test, a failed start-up or an interrupt; a failed
\* cycle is reported as a failure; after the report of the initial or of a
\* scheduled cycle the loop goes on.
FailureKeepsLoop ==
    /\ [](/\ stop_reason \in {"none", "done", "setup", "user"}
          /\ (pc = "reported" /\ CycleFailed) =>
                /\ ~delivery_time.some
                /\ log_outcome \in {"send_failed", "failed"}
                /\ config.zabbix_enabled => Metric("email.delivery.success") = {0})
    /\ [][(pc = "reported" /\ kind # "single") => pc' = "loop"]_vars

\* A cycle runs after a scheduled cycle that failed.
CycleAfterFailedCycle ==
    /\ pc = "send_token"
    /\ kind = "scheduled"
    /\ obs.prev_kind = "scheduled"
    /\ obs.prev_failed

\* C9: a scheduled cycle starts only when the previous one was reported,
\* and no sooner than a period after the previous scheduled cycle ended
\* (after the registration, for the first one): the ticks a long cycle
\* covered are not made up for.
CyclesSerialized ==
    /\ (pc = "run_test" /\ kind = "scheduled") =>
          /\ obs.reported
          /\ obs.started = NoEpoch
          /\ IF obs.prev_kind = "scheduled"
             THEN now >= obs.prev_end + config.test_interval_seconds
             ELSE now >= obs.registered + config.test_interval_seconds
    /\ (pc = "loop" /\ obs.prev_kind = "scheduled"
                    /\ now < obs.prev_end + config.test_interval_seconds) =>
          ~JobDue(now, next_run)

\* A scheduled cycle starts after a scheduled cycle that outlasted two periods.
CycleAfterLongCycle ==
    /\ pc = "run_test"
    /\ kind = "scheduled"
    /\ obs.prev_kind = "scheduled"
    /\ obs.prev_long

\* The measurements of a reported cycle are those of its outcome.
OutcomeMeasured ==
    /\ Len(metrics) = 2
    /\ IF obs.poll_result = "matched"
       THEN /\ Metric("email.delivery.success") = {1}
            /\ Metric("email.delivery.time") =
                  {Latency(obs.matched, last_send_epoch, now, start_time)}
       ELSE /\ Metric("email.delivery.success") = {0}
            /\ Metric("email.delivery.time") = {Ms(FailureSentinel)}

\* C10 as stated: every reported cycle hands over exactly two measurements,
\* once: 1 and the latency when delivered, 0 and the sentinel when failed.
TwoMeasurementsEveryCycle ==
    /\ pc # "reported" => metrics = <<>>
    /\ pc = "reported" => (obs.pushes = 1 /\ OutcomeMeasured)

\* C10: a cycle hands over its measurements once, when it is reported: with
\* Zabbix enabled exactly two, 1 and the latency when delivered, 0 and the
\* sentinel when failed; with Zabbix disabled none.
TwoMeasurementsWhenEnabled ==
    /\ pc # "reported" => metrics = <<>>
    /\ pc = "reported" =>
          /\ obs.pushes = 1
          /\ IF config.zabbix_enabled THEN OutcomeMeasured ELSE metrics = <<>>

\* A delivered cycle reported with the latency between the send epoch marker
\* and the receive time.
DeliveredMeasured ==
    /\ pc = "reported"
    /\ config.zabbix_enabled
    /\ obs.poll_result = "matched"
    /\ Metric("email.delivery.success") = {1}
    /\ Metric("email.delivery.time") = {2500}

\* A cycle was reported as delivered on the candidate obs.matched.
Delivered == pc = "reported" /\ obs.poll_result = "matched"

\* C11: a matched candidate with a parsable send-epoch marker has the
\* latency receive time minus the marker (not below zero), whatever the
\* marker's value and whatever send epoch the process recorded.
MarkerLatency ==
    (Delivered /\ ParseFloat(obs.matched.epoch).ok) =>
        delivery_time.ms =
            Max(0, obs.matched.internalDate - ParseFloat(obs.matched.epoch).ms)

\* C12: a matched candidate without a parsable send-epoch marker has the
\* latency now minus the start of the poll.
FallbackLatency ==
    (Delivered /\ ~ParseFloat(obs.matched.epoch).ok) =>
        delivery_time.ms = Ms(now - start_time)

\* C13: the latency of a delivered cycle is never negative; it is 0 when
\* the receive time precedes the send epoch used as base, taken from the
\* marker or not.
LatencyNonNegative ==
    /\ delivery_time.some => delivery_time.ms >= 0
    /\ (Delivered /\ BaseSend(obs.matched, last_send_epoch) # NoEpoch
                  /\ obs.matched.internalDate < BaseSend(obs.matched, last_send_epoch)) =>
          delivery_time = SomeTime(0)

\* A delivery whose receive time precedes the epoch of its marker.
ClampedOnMarker ==
    /\ Delivered
    /\ ParseFloat(obs.matched.epoch).ok
    /\ obs.matched.internalDate < ParseFloat(obs.matched.epoch).ms
    /\ delivery_time = SomeTime(0)

\* The candidate c with other message identifiers.
WithMessageIds(c, m, x) == [c EXCEPT !.mid = m, !.xmid = x]

\* C14: the Message-ID and X-Monitor-Message-Id of a candidate, absent,
\* equal to the identifier sent or different, change neither the match
\* decision nor the latency: the outcome of the examination of a candidate
\* is the one that each of its variants in these markers has.
MessageIdIrrelevant ==
    (pc # "poll_get" /\ obs.last_req = "ok" /\ obs.examined # NoCandidate) =>
        \A m \in CandidateMessageIds(last_message_id),
           x \in {NoMessageId, last_message_id} :
            LET v == WithMessageIds(obs.examined, m, x)
            IN  /\ Correlate(v, test_id) = (obs.poll_result = "matched")
                /\ Correlate(v, test_id) =>
                      delivery_time =
                        SomeTime(Latency(v, last_send_epoch, now, start_time))

\* A delivery on a candidate that carries no message identifier.
DeliveredWithoutMessageId ==
    /\ Delivered
    /\ obs.examined = obs.matched
    /\ obs.matched.mid = NoMessageId
    /\ obs.matched.xmid = NoMessageId
    /\ delivery_time = SomeTime(2500)

\* The steps of send_test_email and those of check_for_email.
SendSteps == {"send_token", "send_post", "send_refresh", "send_retry"}

PollSteps == {"poll_begin", "poll_loop", "poll_get"}

\* C15: a send failure other than a first answer of 401 ends the send: after
\* a failed exchange, unforced or forced, after a first answer that is
\* neither 202 nor 401 and after any retried answer but 202, the cycle is
\* reported as a send failure, and from there no request and no exchange
\* is made before the cycle is over.
TerminalSendFailure ==
    [][/\ (\/ pc = "send_token" /\ obs'.tcall.called /\ obs'.tcall.ret = NoToken
           \/ pc = "send_post" /\ obs'.status1 \notin {Accepted, Unauthorized}
           \/ pc = "send_refresh" /\ obs'.tcall.called /\ obs'.tcall.ret = NoToken
           \/ pc = "send_retry" /\ obs'.status2 # Accepted) =>
             /\ pc' = "reported"
             /\ ~obs'.send_ok
             /\ ~delivery_time'.some
             /\ log_outcome' = "send_failed"
       /\ (pc = "reported" /\ ~obs.send_ok) =>
             /\ pc' \in {"exit", "loop"}
             /\ UNCHANGED <<access_token, token_expires_at>>
             /\ obs'.sends = 0
             /\ ~obs'.tcall.called
      ]_vars

\* A cycle reported as a send failure after a second 401.
SecondUnauthorizedTerminal ==
    /\ pc = "reported"
    /\ obs.sends = 2
    /\ obs.forced = 1
    /\ obs.status2 = Unauthorized
    /\ log_outcome = "send_failed"

\* C16: a forced token call performs an exchange, also when the cache holds
\* a token with more than 300 s left, and returns only the token fetched.
ForcedAlwaysExchanges ==
    (obs.tcall.called /\ obs.tcall.force) =>
        /\ obs.tcall.exchanges = 1
        /\ obs.tcall.ret # NoToken => obs.tcall.ret = access_token

\* A forced call that exchanged although the cached token had 300 s left.
ForcedWhileFresh ==
    /\ obs.tcall.called
    /\ obs.tcall.force
    /\ obs.tcall.fresh
    /\ obs.tcall.exchanges = 1
    /\ obs.tcall.ret # NoToken

\* The steps the controller may take from each of its positions.
Successors(p) ==
    CASE p = "main"         -> {"run_test", "exit"}
      [] p = "run_test"     -> {"send_token"}
      [] p = "send_token"   -> {"send_post", "reported"}
      [] p = "send_post"    -> {"poll_begin", "send_refresh", "reported"}
      [] p = "send_refresh" -> {"send_retry", "reported"}
      [] p = "send_retry"   -> {"poll_begin", "reported"}
      [] p = "poll_begin"   -> {"poll_loop", "reported"}
      [] p = "poll_loop"    -> {"poll_loop", "poll_get", "reported"}
      [] p = "poll_get"     -> {"poll_get", "poll_loop", "reported"}
      [] p = "reported"     -> {"loop", "exit"}
      [] p = "loop"         -> {"loop", "run_test", "exit"}
      [] OTHER              -> {}

\* C17: the controller goes Idle, Sending, then SendFailed and Reported, or
\* Sent, Polling, Delivered or TimedOut and Reported: the poll is entered
\* only on a 202, a failed send is reported without an inbox query, a poll
\* ends reported with or without a delivery, and no other step is taken.
ControllerOrder ==
    [][/\ pc' \in Successors(pc)
       /\ pc' = "poll_begin" =>
             (obs'.status1 = Accepted \/ obs'.status2 = Accepted)
       /\ pc' \in PollSteps \ {"poll_begin"} => obs'.send_ok
       /\ (pc \in SendSteps /\ pc' = "reported") =>
             /\ ~obs'.send_ok
             /\ obs'.poll_began = NoEpoch
             /\ obs'.last_req = "none"
             /\ ~delivery_time'.some
       /\ (pc \in PollSteps /\ pc' = "reported") =>
             /\ obs'.send_ok
             /\ delivery_time'.some = (obs'.poll_result = "matched")
      ]_vars

\* A cycle reported after a failed send, without an inbox query.
SendFailedReported ==
    /\ pc = "reported"
    /\ obs.sends = 1
    /\ ~obs.send_ok
    /\ obs.poll_began = NoEpoch
    /\ obs.last_req = "none"

\* C18: the send step writes no variable that outlives it: what the poll
\* needs is only in the value it returns.
SendPersistsNothing ==
    [][(pc \in SendSteps) =>
          (last_send_epoch' = last_send_epoch /\ last_message_id' = last_message_id)
      ]_vars

\* C19: a token call whose exchange fails returns no token after one
\* exchange and leaves the cached token and its expiry as they were.
FailedExchangeKeepsCache ==
    [][(pc \in {"send_token", "send_refresh"} /\ obs'.tcall.called
                                              /\ obs'.tcall.ret = NoToken) =>
          /\ obs'.tcall.exchanges = 1
          /\ UNCHANGED <<access_token, token_expires_at>>
      ]_vars

\* A forced refresh failed and the cache still holds the token it held.
FailedRefreshCacheKept ==
    /\ obs.tcall.called
    /\ obs.tcall.force
    /\ obs.tcall.ret = NoToken
    /\ obs.tcall.exchanges = 1
    /\ access_token # NoToken
    /\ token_expires_at > now

\* The lifetime the cache gives a token answered with expires_in e.
Lifetime(e) == IF e = NoEpoch THEN DefaultExpiresIn ELSE e

\* C20: after a successful exchange the cache holds the token fetched, with
\* expires_at = now + expires_in of the answer, 3600 s when it has none; an
\* unforced call with a token cached reuses it exactly while
\* now < expires_at - 300.
ExpiryStored ==
    [][(pc \in {"send_token", "send_refresh"} /\ obs'.tcall.called) =>
          /\ (obs'.tcall.exchanges = 1 /\ obs'.tcall.ret # NoToken) =>
                /\ access_token' = obs'.tcall.ret
                /\ token_expires_at' = now' + Lifetime(obs'.tcall.expires_in)
          /\ (pc = "send_token" /\ access_token # NoToken) =>
                ((obs'.tcall.exchanges = 0) = (now < token_expires_at - TokenSkew))
      ]_vars

\* A token answered without expires_in is cached for 3600 s.
DefaultLifetimeStored ==
    /\ obs.tcall.called
    /\ obs.tcall.exchanges = 1
    /\ obs.tcall.ret # NoToken
    /\ obs.tcall.expires_in = NoEpoch
    /\ token_expires_at = now + 3600

CycleTerminates ==
    /\ (pc = "run_test") ~> (pc = "reported")
    /\ [](pc = "poll_get" => ENABLED <<PollGet>>_vars)
    /\ [](pc = "reported" =>
            /\ obs.pushes = 1
            /\ log_outcome \in {"success", "failed", "send_failed"}
            /\ delivery_time.some = (obs.poll_result = "matched"))

\* A single test reported as failed at its deadline after a failed request.
SingleTestTimedOut ==
    /\ pc = "reported"
    /\ kind = "single"
    /\ obs.last_req = "http_error"
    /\ obs.poll_result = "timeout"
    /\ now > MaxTime

\* Position in the page of the first message that the correlator accepts,
\* 0 when it accepts none.
FirstHit ==
    LET hits == {i \in 1..Len(obs.page) : Correlate(obs.page[i], test_id)}
    IN  IF hits = {} THEN 0 ELSE CHOOSE i \in hits : \A j \in hits : i <= j

\* Position in the page of the id that the next fetch asks for.
NextListed == Len(obs.page) - remaining + 1

\* C23: the messages of a page are examined in the order listed, and the
\* fetch of the first one that the correlator accepts ends the poll at once:
\* the result is that message's latency, no later id is fetched, nothing
\* sleeps and no further iteration starts.
ReturnsOnFirstMatch ==
    /\ [](obs.poll_result = "matched" =>
            /\ pc = "reported"
            /\ remaining = 0
            /\ FirstHit > 0
            /\ obs.matched = obs.page[FirstHit]
            /\ delivery_time =
                  SomeTime(Latency(obs.matched, last_send_epoch, now, start_time))
            /\ now - start_time < PollSleep)
    /\ [][(/\ pc = "poll_get"
           /\ obs'.last_req = "ok"
           /\ Correlate(obs.page[NextListed], test_id)) =>
              (/\ NextListed = FirstHit
               /\ obs'.poll_result = "matched"
               /\ pc' = "reported"
               /\ now' - now < PollSleep)]_vars

\* The first of two listed messages matched although the second, a different
\* message, would have matched too.
MatchedBeforeLastListed ==
    /\ pc = "reported"
    /\ obs.poll_result = "matched"
    /\ Len(obs.page) = 2
    /\ FirstHit = 1
    /\ obs.page[2] # obs.page[1]
    /\ Correlate(obs.page[2], test_id)

\* C24: the send epoch is captured before the first send request and never
\* again: the request retried after a 401 carries the send epoch, the
\* test_id and the Message-ID of the first request, and a 202 records that
\* epoch and that Message-ID for the cycle.
EpochCapturedOnce ==
    /\ [](pc = "send_post" =>
            /\ obs.sends = 0
            /\ send_epoch # NoEpoch
            /\ send_epoch <= now
            /\ message_id.epoch = send_epoch
            /\ message_id.tid = test_id)
    /\ [](obs.sends >= 1 =>
            /\ obs.req1.tid = test_id
            /\ obs.req1.mid.epoch = obs.req1.epoch
            /\ obs.req1.epoch <= now)
    /\ [](obs.sends = 2 => obs.req2 = obs.req1)
    /\ [](pc = "poll_begin" =>
            /\ last_send_epoch = obs.req1.epoch
            /\ last_message_id = obs.req1.mid)
    /\ [][(pc \in {"send_post", "send_refresh"} /\
             pc' \in {"send_refresh", "send_retry"}) =>
              (/\ send_epoch' = send_epoch
               /\ message_id' = message_id
               /\ test_id' = test_id)]_vars

\* The retried request was accepted at a later second than the one at which
\* the send epoch was captured.
RetriedLaterAccepted ==
    /\ pc = "poll_begin"
    /\ obs.sends = 2
    /\ obs.status2 = Accepted
    /\ last_send_epoch = obs.req2.epoch
    /\ last_send_epoch < now

\* C25: the outcome logged at the end of a cycle agrees with the success
\* flag handed to Zabbix: a cycle measured with success 1 is logged as
\* successful, also with a latency of 0.0, and a cycle logged as failed is
\* measured with success 0.
LogAgreesWithMetric ==
    (pc = "reported" /\ config.zabbix_enabled) =>
        /\ Metric("email.delivery.success") = {1} => log_outcome = "success"
        /\ log_outcome \in {"failed", "send_failed"} =>
              Metric("email.delivery.success") = {0}

\* C26: while a cycle polls, and when it reports a poll, the recorded send
\* epoch and Message-ID are those of its own send: they are written only by
\* a send request answered with 202, with the values of the cycle that
\* sent, and a send that fails leaves them as they were (they end with the
\* process).
RecordedBySameCycle ==
    /\ []((pc \in PollSteps \/ (pc = "reported" /\ obs.send_ok)) =>
            /\ last_message_id.tid = test_id
            /\ last_message_id.epoch = last_send_epoch
            /\ obs.started <= last_send_epoch
            /\ last_send_epoch <= now)
    /\ [][(pc' # "exit" /\ (last_send_epoch' # last_send_epoch \/
                             last_message_id' # last_message_id)) =>
              (/\ pc \in {"send_post", "send_retry"}
               /\ pc' = "poll_begin"
               /\ Accepted \in {obs'.status1, obs'.status2}
               /\ last_send_epoch' = send_epoch
               /\ last_message_id' = message_id)]_vars
    /\ [][(pc \in SendSteps /\ pc' # "poll_begin") =>
              (/\ last_send_epoch' = last_send_epoch
               /\ last_message_id' = last_message_id)]_vars

\* A scheduled cycle polls after its own send, later than the send of the
\* delivered cycle before it.
PollsAfterEarlierSend ==
    /\ pc \in PollSteps
    /\ kind = "scheduled"
    /\ ~obs.prev_failed
    /\ obs.prev_end # NoEpoch
    /\ obs.prev_end < last_send_epoch
    /\ obs.started <= last_send_epoch

====
